---- MODULE Spec2Model ----
(***************************************************************************)
(* Model of src/utils/gdrive_manager.py: the lazily created Drive service, *)
(* the folder listing cache with its TTL and stale fallback, the download  *)
(* cache of temporary files, the two retry loops with exponential backoff, *)
(* get_video_path and clear_video_cache.                                   *)
(*                                                                         *)
(* Python strings are sequences of one-character strings, so that the      *)
(* f-string of the cache key and Path(...).suffix are computed and not     *)
(* assumed.  None is 0 for the service and NoPath for a path.              *)
(*                                                                         *)
(* Specifications: Spec and SpecRecorded (one caller at a time, every      *)
(* public function), SpecKeys and SpecClear (download_video_to_temp with   *)
(* chosen arguments, and clear_video_cache), SpecListers and SpecRace (two *)
(* threads whose steps interleave).                                        *)
(***************************************************************************)
EXTENDS Integers, Sequences, FiniteSets, TLC

\* ---------------------------------------------------------------- bounds
\* Last instant of the modelled clock.
MaxTime == 307
\* Number of distinct names tempfile can hand out per suffix.
MaxTemp == 1

\* ------------------------------------------------------ program constants
VIDEO_LIST_CACHE_TTL == 300
max_retries == 3
list_retry_delay == 1
download_retry_delay == 2
backoff == 2

\* ------------------------------------------------------------ input sets
Threads == {"t1", "t2"}
MainThread == "t1"
Folders == {"F1"}

ID1 == <<"x">>
ID2 == <<"y">>
FileIds == {ID1, ID2}
FN1 == <<"a", ".", "v">>
FN2 == <<"b">>
Filenames == {FN1, FN2}

\* FN1 with its first letter in upper case: a name a listing may hold.
FN1Upper == <<"A", ".", "v">>

Video(id, name) == [id |-> id, name |-> name]
\* What files().list(...).execute() may answer for a folder: no file, or
\* three files of which the last two have the same name and the first a
\* name that differs from theirs in case only.
Listings == { <<>>, <<Video(ID1, FN1Upper), Video(ID2, FN1), Video(ID1, FN1)>> }

\* The instants at which the clock is observed: the start, the last instant
\* at which an entry stored at the start is fresh, the first at which it is
\* stale, and the instants that the sleeps of a retry loop lead to from there.
Instants ==
    {i \in 0..MaxTime :
        \/ i \in {0, VIDEO_LIST_CACHE_TTL - 1}
        \/ i - VIDEO_LIST_CACHE_TTL \in {0, 1, 3, 7}}

\* The exceptions the calls of the module can raise: the Drive client's
\* HttpError, and OSError for the transport and the local files; both derive
\* from Exception.
ExcKinds == {"HttpError", "OSError"}

\* ---------------------------------------------------------- pure helpers
SeqMax(S) == CHOOSE m \in S : \A k \in S : k <= m
SeqMin(S) == CHOOSE m \in S : \A k \in S : m <= k

\* cache_key = f"{file_id}_{filename}"
cache_key(file_id, filename) == file_id \o <<"_">> \o filename

\* Path(filename).suffix or '.mp4': the part of the name from its last dot,
\* when that dot is neither the first nor the last character (the model's
\* file names hold no path separator).
DefaultSuffix == <<".", "m", "p", "4">>
suffix(filename) ==
    LET dots == {i \in 1..Len(filename) : filename[i] = "."}
    IN  IF dots = {} THEN DefaultSuffix
        ELSE LET i == SeqMax(dots)
             IN  IF i > 1 /\ i < Len(filename)
                 THEN SubSeq(filename, i, Len(filename))
                 ELSE DefaultSuffix

\* A temporary path is the random part of its name and its suffix.
NoPath == <<0, <<>>>>

\* except X: catches X and its subclasses; every kind derives from Exception.
Caught(kind, clauses) == kind \in clauses \/ "Exception" \in clauses

ServiceClauses == {"Exception"}
ListClauses == {"HttpError", "Exception"}
DownloadClausesHttpOnly == {"HttpError"}
DownloadClauses == {"HttpError", "Exception"}

\* time.time() - cached_time < _VIDEO_LIST_CACHE_TTL
IsFreshInclusive(t, cached_time) == t - cached_time <= VIDEO_LIST_CACHE_TTL
IsFresh(t, cached_time) == t - cached_time < VIDEO_LIST_CACHE_TTL

\* retry_delay *= 2
NextDelayConstant(d) == d
NextDelay(d) == d * backoff

\* time.sleep(d) returns no sooner than d seconds later: the first observed
\* instant at or after now + d.
CanSleep(t, d) == \E i \in Instants : i >= t + d
AfterSleep(t, d) == SeqMin({i \in Instants : i >= t + d})

\* os.path.exists(cached_path)
PathExistsAlways(files, path) == TRUE
path_exists(files, path) == path \in DOMAIN files

\* the first video of the listing whose name is the file name (0: none)
FirstMatchAny(videos, filename) == IF Len(videos) > 0 THEN 1 ELSE 0
\* (A match that ignores the case of the letters.)
Lower(name) == [i \in 1..Len(name) |-> IF name[i] = "A" THEN "a" ELSE name[i]]
FirstMatchNoCase(videos, filename) ==
    LET hits == {i \in 1..Len(videos) : Lower(videos[i].name) = Lower(filename)}
    IN  IF hits = {} THEN 0 ELSE SeqMin(hits)
FirstMatch(videos, filename) ==
    LET hits == {i \in 1..Len(videos) : videos[i].name = filename}
    IN  IF hits = {} THEN 0 ELSE SeqMin(hits)

\* ------------------------------------------------------------------ state
VARIABLES
    gdrive_service,     \* _gdrive_service: 0 is None, n >= 1 the n-th service built
    video_cache,        \* _video_cache: cache key -> temporary path
    video_list_cache,   \* _video_list_cache: folder id -> <<files, timestamp>>
    disk,               \* the temporary directory: path -> bytes (<<>>: empty file)
    now,                \* time.time()
    th,                 \* per thread: the running call, its locals, its position
    lastOk,             \* history: folder -> <<files, time>> of its last successful list call
    lastDl,             \* history: key -> path of its last successful download, while
                        \*   that file has stayed on disk and no clear has run
    recording,          \* whether observed is kept
    builds,             \* history: the number of services built so far
    clearedKeys,        \* history: keys the last clear removed and nothing re-downloaded
    observed            \* history: <<result class, outcome>> of finished get_video_path calls

vars == <<gdrive_service, video_cache, video_list_cache, disk, now, th,
          lastOk, lastDl, clearedKeys, observed, recording, builds>>

Empty == <<>>

Idle == [ op |-> "none", pc |-> "idle",
          folder_id |-> "F1", use_cache |-> TRUE,
          filename |-> <<>>, file_id |-> <<>>,
          service |-> 0, attempt |-> 0, retry_delay |-> 0, exc |-> "none",
          cached_time |-> 0 - 1, checked_at |-> 0 - 1,
          videos |-> <<>>, temp_path |-> NoPath, retPath |-> NoPath,
          retNames |-> <<>>,
          todo |-> {},
          \* history of the running call
          listSrc |-> "none", listFail |-> "none", hadEntry |-> FALSE,
          listCalls |-> 0, lfails |-> 0, ldelays |-> <<>>,
          dlCalls |-> 0, dlOk |-> 0, dfails |-> 0, ddelays |-> <<>>,
          dlSrc |-> "none", roundTrip |-> NoPath, dangling |-> NoPath,
          wasCleared |-> FALSE, matched |-> FALSE,
          unlinkFailed |-> {}, created |-> {},
          snapVC |-> Empty, snapLC |-> Empty ]

Init ==
    /\ gdrive_service = 0
    /\ video_cache = Empty
    /\ video_list_cache = Empty
    /\ disk = Empty
    /\ now = 0
    /\ th = [t \in Threads |-> Idle]
    /\ lastOk = Empty
    /\ lastDl = Empty
    /\ clearedKeys = {}
    /\ observed = {}
    /\ recording = FALSE
    /\ builds = 0

Has(f, k) == k \in DOMAIN f
Put(f, k, v) == [x \in DOMAIN f \cup {k} |-> IF x = k THEN v ELSE f[x]]
Drop(f, ks) == IF DOMAIN f \ ks = {} THEN Empty ELSE [x \in DOMAIN f \ ks |-> f[x]]

\* _video_cache[cache_key] = temp_path
StorePathNever(cache, key, path) == cache
StorePath(cache, key, path) == Put(cache, key, path)

\* line 219: return None
ExhaustedResultTemp(temp_path) == temp_path
ExhaustedResult(temp_path) == NoPath

Shared == <<gdrive_service, video_cache, video_list_cache, disk, now>>
History == <<lastOk, lastDl, clearedKeys, observed, recording, builds>>

\* ------------------------------------------------------- the public calls
\* list_videos_in_folder(folder_id, use_cache)
Call_getListing(t, F, uc) ==
    /\ th[t].pc = "idle"
    /\ th' = [th EXCEPT ![t] = [Idle EXCEPT !.op = "getListing", !.pc = "L_check",
                                            !.folder_id = F, !.use_cache = uc,
                                            !.snapLC = video_list_cache]]
    /\ UNCHANGED <<Shared, History>>

\* download_video_to_temp(file_id, filename)
Call_getLocalPath(t, id, fn) ==
    /\ th[t].pc = "idle"
    /\ th' = [th EXCEPT ![t] = [Idle EXCEPT !.op = "getLocalPath", !.pc = "D_check",
                                            !.file_id = id, !.filename = fn]]
    /\ UNCHANGED <<Shared, History>>

\* get_video_path(filename, folder_id): line 235 calls list_videos_in_folder(folder_id)
Call_resolve(t, fn, F) ==
    /\ th[t].pc = "idle"
    /\ th' = [th EXCEPT ![t] = [Idle EXCEPT !.op = "resolve", !.pc = "L_check",
                                            !.folder_id = F, !.use_cache = TRUE,
                                            !.filename = fn,
                                            !.snapVC = video_cache]]
    /\ UNCHANGED <<Shared, History>>

\* get_all_video_filenames(folder_id): line 281 calls list_videos_in_folder(folder_id)
Call_listAllFilenames(t, F) ==
    /\ th[t].pc = "idle"
    /\ th' = [th EXCEPT ![t] = [Idle EXCEPT !.op = "listAllFilenames", !.pc = "L_check",
                                            !.folder_id = F, !.use_cache = TRUE]]
    /\ UNCHANGED <<Shared, History>>

\* clear_video_cache(): the for loop starts over the items of _video_cache
Call_clear(t) ==
    /\ th[t].pc = "idle"
    /\ th' = [th EXCEPT ![t] = [Idle EXCEPT !.op = "clearDownloadCache", !.pc = "C_loop",
                                            !.todo = DOMAIN video_cache,
                                            !.snapVC = video_cache,
                                            !.snapLC = video_list_cache]]
    /\ UNCHANGED <<Shared, History>>

\* ------------------------------------------------------ get_gdrive_service
\* Lines 33-57, called at line 80 and at line 161.  The build either yields a
\* service or raises; the except clause turns the failure into None.
\* Every build yields a new object: the n-th service built is n.
BuildOutcomes == {"ok"} \cup ExcKinds

\* (A get_gdrive_service that builds a service at every call.)
get_gdrive_serviceEager(t) ==
    /\ th[t].pc \in {"L_service", "D_service"}
    /\ LET next == IF th[t].pc = "L_service" THEN "L_got" ELSE "D_got"
       IN  \E o \in {"ok"} \cup ExcKinds :
              IF o = "ok"
              THEN /\ gdrive_service' = builds + 1
                   /\ builds' = builds + 1
                   /\ th' = [th EXCEPT ![t].service = builds + 1, ![t].pc = next]
              ELSE /\ UNCHANGED <<gdrive_service, builds>>
                   /\ th' = [th EXCEPT ![t].service = 0, ![t].pc = next]
    /\ UNCHANGED <<video_cache, video_list_cache, disk, now,
                   lastOk, lastDl, clearedKeys, observed, recording>>

get_gdrive_service(t) ==
    /\ th[t].pc \in {"L_service", "D_service"}
    /\ LET next == IF th[t].pc = "L_service" THEN "L_got" ELSE "D_got"
       IN  IF gdrive_service # 0
           THEN /\ th' = [th EXCEPT ![t].service = gdrive_service, ![t].pc = next]
                /\ UNCHANGED <<gdrive_service, builds>>
           ELSE \E o \in BuildOutcomes :
                   IF o = "ok"
                   THEN /\ gdrive_service' = builds + 1
                        /\ builds' = builds + 1
                        /\ th' = [th EXCEPT ![t].service = builds + 1, ![t].pc = next]
                   ELSE /\ UNCHANGED <<gdrive_service, builds>>
                        /\ th' = IF Caught(o, ServiceClauses)
                                 THEN [th EXCEPT ![t].service = 0, ![t].pc = next]
                                 ELSE [th EXCEPT ![t].exc = o, ![t].pc = "raised"]
    /\ UNCHANGED <<video_cache, video_list_cache, disk, now,
                   lastOk, lastDl, clearedKeys, observed, recording>>

\* --------------------------------------------------- list_videos_in_folder
\* Where list_videos_in_folder returns to.
AfterList(op) ==
    IF op = "resolve" THEN "R_match"
    ELSE IF op = "listAllFilenames" THEN "A_names"
    ELSE "done"

\* Lines 73-78: the fresh-cache path.
L_check(t) ==
    /\ th[t].pc = "L_check"
    /\ LET r == th[t]
           F == r.folder_id
           has == Has(video_list_cache, F)
       IN  IF r.use_cache /\ has
           THEN LET cached_videos == video_list_cache[F][1]
                    cached_time == video_list_cache[F][2]
                IN  IF IsFresh(now, cached_time)
                    THEN th' = [th EXCEPT ![t].hadEntry = has,
                                          ![t].cached_time = cached_time,
                                          ![t].checked_at = now,
                                          ![t].videos = cached_videos,
                                          ![t].listSrc = "fresh",
                                          ![t].pc = AfterList(r.op)]
                    ELSE th' = [th EXCEPT ![t].hadEntry = has,
                                          ![t].cached_time = cached_time,
                                          ![t].checked_at = now,
                                          ![t].pc = "L_service"]
           ELSE th' = [th EXCEPT ![t].hadEntry = has, ![t].pc = "L_service"]
    /\ UNCHANGED <<Shared, History>>

\* Lines 128-133 and 84-87: the stale entry if there is one, else [].
FallbackAlwaysEmpty(cache, F) == <<>>
Fallback(cache, F) == IF Has(cache, F) THEN cache[F][1] ELSE <<>>
FallbackSrc(cache, F) == IF Has(cache, F) THEN "stale" ELSE "empty"

\* Lines 81-91: no service means the fallback; else the retry loop starts.
L_got(t) ==
    /\ th[t].pc = "L_got"
    /\ LET r == th[t]
           F == r.folder_id
       IN  IF r.service = 0
           THEN th' = [th EXCEPT ![t].listFail = "noservice",
                                 ![t].videos = Fallback(video_list_cache, F),
                                 ![t].listSrc = FallbackSrc(video_list_cache, F),
                                 ![t].pc = AfterList(r.op)]
           ELSE th' = [th EXCEPT ![t].attempt = 0,
                                 ![t].retry_delay = list_retry_delay,
                                 ![t].pc = "L_attempt"]
    /\ UNCHANGED <<Shared, History>>

\* (An attempt that updates the entry it finds field by field and is seen
\* between the two writes: the files are new, the time is the old one.)
L_attemptFieldwise(t) ==
    /\ th[t].pc = "L_attempt"
    /\ LET r == th[t]
           F == r.folder_id
           stamp == IF Has(video_list_cache, F) THEN video_list_cache[F][2] ELSE now
       IN  \E o \in {"ok"} \cup ExcKinds : \E files \in Listings :
              IF o = "ok"
              THEN /\ video_list_cache' = Put(video_list_cache, F, <<files, stamp>>)
                   /\ lastOk' = Put(lastOk, F, <<files, now>>)
                   /\ th' = [th EXCEPT ![t].videos = files,
                                       ![t].listSrc = "fetched",
                                       ![t].listCalls = @ + 1,
                                       ![t].pc = AfterList(r.op)]
              ELSE /\ UNCHANGED <<video_list_cache, lastOk>>
                   /\ th' = [th EXCEPT ![t].exc = o,
                                       ![t].listCalls = @ + 1,
                                       ![t].lfails = @ + 1,
                                       ![t].pc = "L_except"]
    /\ UNCHANGED <<gdrive_service, video_cache, disk, now, lastDl, clearedKeys, observed, recording, builds>>

\* (An attempt that adds the files to those of the entry it finds.)
L_attemptMerging(t) ==
    /\ th[t].pc = "L_attempt"
    /\ LET r == th[t]
           F == r.folder_id
           old == IF Has(video_list_cache, F) THEN video_list_cache[F][1] ELSE <<>>
       IN  \E o \in {"ok"} \cup ExcKinds : \E files \in Listings :
              IF o = "ok"
              THEN /\ video_list_cache' = Put(video_list_cache, F, <<old \o files, now>>)
                   /\ lastOk' = Put(lastOk, F, <<files, now>>)
                   /\ th' = [th EXCEPT ![t].videos = files,
                                       ![t].listSrc = "fetched",
                                       ![t].listCalls = @ + 1,
                                       ![t].pc = AfterList(r.op)]
              ELSE /\ UNCHANGED <<video_list_cache, lastOk>>
                   /\ th' = [th EXCEPT ![t].exc = o,
                                       ![t].listCalls = @ + 1,
                                       ![t].lfails = @ + 1,
                                       ![t].pc = "L_except"]
    /\ UNCHANGED <<gdrive_service, video_cache, disk, now, lastDl, clearedKeys, observed, recording, builds>>

\* Lines 93-110: one attempt of files().list(...).execute(); on success the
\* entry of the folder is replaced and the files are returned.
ListOutcomes == {"ok"} \cup ExcKinds
L_attempt(t) ==
    /\ th[t].pc = "L_attempt"
    /\ LET r == th[t]
           F == r.folder_id
       IN  \E o \in ListOutcomes : \E files \in Listings :
              IF o = "ok"
              THEN /\ video_list_cache' = Put(video_list_cache, F, <<files, now>>)
                   /\ lastOk' = Put(lastOk, F, <<files, now>>)
                   /\ th' = [th EXCEPT ![t].videos = files,
                                       ![t].listSrc = "fetched",
                                       ![t].listCalls = @ + 1,
                                       ![t].pc = AfterList(r.op)]
              ELSE /\ UNCHANGED <<video_list_cache, lastOk>>
                   /\ th' = [th EXCEPT ![t].exc = o,
                                       ![t].listCalls = @ + 1,
                                       ![t].lfails = @ + 1,
                                       ![t].pc = "L_except"]
    /\ UNCHANGED <<gdrive_service, video_cache, disk, now, lastDl, clearedKeys, observed, recording, builds>>

\* (An except clause that sleeps after the last attempt too.)
L_exceptSleepsLast(t) ==
    /\ th[t].pc = "L_except"
    /\ LET r == th[t]
       IN  IF ~Caught(r.exc, ListClauses)
           THEN /\ th' = [th EXCEPT ![t].pc = "raised"]
                /\ UNCHANGED now
           ELSE /\ CanSleep(now, r.retry_delay)
                /\ now' = AfterSleep(now, r.retry_delay)
                /\ th' = [th EXCEPT ![t].ldelays = Append(@, r.retry_delay),
                                    ![t].retry_delay = NextDelay(r.retry_delay),
                                    ![t].attempt = @ + 1,
                                    ![t].exc = "none",
                                    ![t].pc = IF r.attempt < max_retries - 1
                                              THEN "L_attempt" ELSE "L_fallback"]
    /\ UNCHANGED <<gdrive_service, video_cache, video_list_cache, disk, History>>

\* Lines 112-126: sleep and double the delay while attempts remain; after
\* the last attempt the loop ends.
L_except(t) ==
    /\ th[t].pc = "L_except"
    /\ LET r == th[t]
       IN  IF ~Caught(r.exc, ListClauses)
           THEN /\ th' = [th EXCEPT ![t].pc = "raised"]
                /\ UNCHANGED now
           ELSE IF r.attempt < max_retries - 1
           THEN /\ CanSleep(now, r.retry_delay)
                /\ now' = AfterSleep(now, r.retry_delay)
                /\ th' = [th EXCEPT ![t].ldelays = Append(@, r.retry_delay),
                                    ![t].retry_delay = NextDelay(r.retry_delay),
                                    ![t].attempt = @ + 1,
                                    ![t].exc = "none",
                                    ![t].pc = "L_attempt"]
           ELSE /\ th' = [th EXCEPT ![t].attempt = @ + 1,
                                    ![t].exc = "none",
                                    ![t].pc = "L_fallback"]
                /\ UNCHANGED now
    /\ UNCHANGED <<gdrive_service, video_cache, video_list_cache, disk, History>>

\* (A fallback that stamps the entry it serves with the present time.)
L_fallbackRenewing(t) ==
    /\ th[t].pc = "L_fallback"
    /\ LET r == th[t]
           F == r.folder_id
       IN  /\ th' = [th EXCEPT ![t].listFail = "exhausted",
                               ![t].videos = Fallback(video_list_cache, F),
                               ![t].listSrc = FallbackSrc(video_list_cache, F),
                               ![t].pc = AfterList(r.op)]
           /\ video_list_cache' = IF Has(video_list_cache, F)
                                  THEN Put(video_list_cache, F, <<video_list_cache[F][1], now>>)
                                  ELSE video_list_cache
    /\ UNCHANGED <<gdrive_service, video_cache, disk, now, History>>

\* (A fallback that also stores what it returns.)
L_fallbackCaching(t) ==
    /\ th[t].pc = "L_fallback"
    /\ LET r == th[t]
           F == r.folder_id
       IN  /\ th' = [th EXCEPT ![t].listFail = "exhausted",
                               ![t].videos = Fallback(video_list_cache, F),
                               ![t].listSrc = FallbackSrc(video_list_cache, F),
                               ![t].pc = AfterList(r.op)]
           /\ video_list_cache' = Put(video_list_cache, F, <<Fallback(video_list_cache, F), now>>)
    /\ UNCHANGED <<gdrive_service, video_cache, disk, now, History>>

\* Lines 128-133: all attempts failed.
L_fallback(t) ==
    /\ th[t].pc = "L_fallback"
    /\ LET r == th[t]
           F == r.folder_id
       IN  th' = [th EXCEPT ![t].listFail = "exhausted",
                            ![t].videos = Fallback(video_list_cache, F),
                            ![t].listSrc = FallbackSrc(video_list_cache, F),
                            ![t].pc = AfterList(r.op)]
    /\ UNCHANGED <<Shared, History>>

\* Line 282: the names of the listed videos.
A_names(t) ==
    /\ th[t].pc = "A_names"
    /\ th' = [th EXCEPT ![t].retNames = [i \in 1..Len(th[t].videos) |-> th[t].videos[i].name],
                        ![t].pc = "done"]
    /\ UNCHANGED <<Shared, History>>

\* -------------------------------------------------- download_video_to_temp
\* Lines 150-159: a hit returns the cached path when its file exists; an
\* entry whose file is gone is deleted and the call goes on as a miss.
D_check(t) ==
    /\ th[t].pc = "D_check"
    /\ LET r == th[t]
           key == cache_key(r.file_id, r.filename)
           seen == [r EXCEPT !.roundTrip = IF Has(lastDl, key) THEN lastDl[key] ELSE NoPath,
                             !.dangling = IF Has(video_cache, key) /\ ~Has(disk, video_cache[key])
                                          THEN video_cache[key] ELSE NoPath,
                             !.wasCleared = key \in clearedKeys]
       IN  IF Has(video_cache, key)
           THEN LET cached_path == video_cache[key]
                IN  IF path_exists(disk, cached_path)
                    THEN /\ th' = [th EXCEPT ![t] = [seen EXCEPT !.dlSrc = "hit",
                                                                 !.retPath = cached_path,
                                                                 !.pc = "done"]]
                         /\ UNCHANGED video_cache
                    ELSE /\ video_cache' = Drop(video_cache, {key})
                         /\ th' = [th EXCEPT ![t] = [seen EXCEPT !.pc = "D_service"]]
           ELSE /\ th' = [th EXCEPT ![t] = [seen EXCEPT !.pc = "D_service"]]
                /\ UNCHANGED video_cache
    /\ UNCHANGED <<gdrive_service, video_list_cache, disk, now, History>>

\* Lines 162-168: no service returns None; else the retry loop starts.
D_got(t) ==
    /\ th[t].pc = "D_got"
    /\ LET r == th[t]
       IN  IF r.service = 0
           THEN th' = [th EXCEPT ![t].dlSrc = "noservice",
                                 ![t].retPath = NoPath,
                                 ![t].pc = "done"]
           ELSE th' = [th EXCEPT ![t].attempt = 0,
                                 ![t].retry_delay = download_retry_delay,
                                 ![t].pc = "D_temp"]
    /\ UNCHANGED <<Shared, History>>

\* Lines 172-180: the request object is built (no I/O) and
\* NamedTemporaryFile(delete=False, suffix=suffix) creates an empty file under
\* a name no file on disk has, or raises OSError.
FreeNames(fn) == {n \in 1..MaxTemp : ~Has(disk, <<n, suffix(fn)>>)}
D_temp(t) ==
    /\ th[t].pc = "D_temp"
    /\ LET r == th[t]
       IN  \E n \in 0..MaxTemp :
              IF n \in FreeNames(r.filename)
              THEN /\ disk' = Put(disk, <<n, suffix(r.filename)>>, <<>>)
                   /\ th' = [th EXCEPT ![t].temp_path = <<n, suffix(r.filename)>>,
                                       ![t].created = @ \cup {<<n, suffix(r.filename)>>},
                                       ![t].pc = "D_chunks"]
              ELSE /\ n = 0
                   /\ UNCHANGED disk
                   /\ th' = [th EXCEPT ![t].exc = "OSError",
                                       ![t].dfails = @ + 1,
                                       ![t].pc = "D_except"]
    /\ UNCHANGED <<gdrive_service, video_cache, video_list_cache, now, History>>

\* Lines 183-190: the chunks are fetched into memory; any chunk may raise.
ChunkOutcomes == {"ok"} \cup ExcKinds
D_chunks(t) ==
    /\ th[t].pc = "D_chunks"
    /\ \E o \in ChunkOutcomes :
          IF o = "ok"
          THEN th' = [th EXCEPT ![t].dlCalls = @ + 1, ![t].pc = "D_write"]
          ELSE th' = [th EXCEPT ![t].dlCalls = @ + 1,
                                ![t].exc = o,
                                ![t].dfails = @ + 1,
                                ![t].pc = "D_except"]
    /\ UNCHANGED <<Shared, History>>

\* Lines 192-201: the bytes are written through the open handle (the write
\* reaches the disk only if the name is still there), the path is cached
\* under the key and returned; the write may raise OSError.
WriteOutcomes == {"ok", "OSError"}
D_write(t) ==
    /\ th[t].pc = "D_write"
    /\ LET r == th[t]
           key == cache_key(r.file_id, r.filename)
           onDisk == Has(disk, r.temp_path)
       IN  \E o \in WriteOutcomes :
              IF o = "ok"
              THEN /\ disk' = IF onDisk THEN Put(disk, r.temp_path, r.file_id) ELSE disk
                   /\ video_cache' = StorePath(video_cache, key, r.temp_path)
                   /\ lastDl' = IF onDisk THEN Put(lastDl, key, r.temp_path)
                                ELSE Drop(lastDl, {key})
                   /\ clearedKeys' = clearedKeys \ {key}
                   /\ th' = [th EXCEPT ![t].dlSrc = "downloaded",
                                       ![t].dlOk = @ + 1,
                                       ![t].retPath = r.temp_path,
                                       ![t].pc = "done"]
              ELSE /\ UNCHANGED <<disk, video_cache, lastDl, clearedKeys>>
                   /\ th' = [th EXCEPT ![t].exc = o,
                                       ![t].dfails = @ + 1,
                                       ![t].pc = "D_except"]
    /\ UNCHANGED <<gdrive_service, video_list_cache, now, lastOk, observed, recording, builds>>

\* Lines 203-219: sleep and double the delay while attempts remain; after
\* the last attempt the loop ends and None is returned.
D_except(t) ==
    /\ th[t].pc = "D_except"
    /\ LET r == th[t]
       IN  IF ~Caught(r.exc, DownloadClauses)
           THEN /\ th' = [th EXCEPT ![t].pc = "raised"]
                /\ UNCHANGED now
           ELSE IF r.attempt < max_retries - 1
           THEN /\ CanSleep(now, r.retry_delay)
                /\ now' = AfterSleep(now, r.retry_delay)
                /\ th' = [th EXCEPT ![t].ddelays = Append(@, r.retry_delay),
                                    ![t].retry_delay = NextDelay(r.retry_delay),
                                    ![t].attempt = @ + 1,
                                    ![t].exc = "none",
                                    ![t].pc = "D_temp"]
           ELSE /\ th' = [th EXCEPT ![t].attempt = @ + 1,
                                    ![t].exc = "none",
                                    ![t].dlSrc = "exhausted",
                                    ![t].retPath = ExhaustedResult(r.temp_path),
                                    ![t].pc = "done"]
                /\ UNCHANGED now
    /\ UNCHANGED <<gdrive_service, video_cache, video_list_cache, disk, History>>

\* ---------------------------------------------------------- get_video_path
\* Lines 237-249: the first video with that name; none returns None, else
\* its id goes to download_video_to_temp.
R_match(t) ==
    /\ th[t].pc = "R_match"
    /\ LET r == th[t]
           i == FirstMatch(r.videos, r.filename)
       IN  IF i = 0
           THEN th' = [th EXCEPT ![t].matched = FALSE,
                                 ![t].retPath = NoPath,
                                 ![t].pc = "done"]
           ELSE th' = [th EXCEPT ![t].matched = TRUE,
                                 ![t].file_id = r.videos[i].id,
                                 ![t].pc = "D_check"]
    /\ UNCHANGED <<Shared, History>>

\* ------------------------------------------------------- clear_video_cache
\* (A loop that a failing unlink ends.)
C_loopAborting(t) ==
    /\ th[t].pc = "C_loop"
    /\ th[t].todo # {}
    /\ LET r == th[t]
           k == CHOOSE x \in r.todo : TRUE
           temp_path == video_cache[k]
       IN  \E o \in {"ok", "OSError"} :
              IF path_exists(disk, temp_path) /\ o = "ok"
              THEN /\ disk' = Drop(disk, {temp_path})
                   /\ lastDl' = Drop(lastDl, {x \in DOMAIN lastDl : lastDl[x] = temp_path})
                   /\ th' = [th EXCEPT ![t].todo = @ \ {k}]
              ELSE /\ UNCHANGED <<disk, lastDl>>
                   /\ th' = IF ~path_exists(disk, temp_path)
                            THEN [th EXCEPT ![t].todo = @ \ {k}]
                            ELSE [th EXCEPT ![t].todo = {},
                                            ![t].unlinkFailed = @ \cup {k}]
    /\ UNCHANGED <<gdrive_service, video_cache, video_list_cache, now,
                   lastOk, clearedKeys, observed, recording, builds>>

\* The iterator of _video_cache.items() (line 259) raises RuntimeError, which
\* nothing catches, when it is advanced and the dict has not the size it had
\* when the loop began: this takes another thread.
SizeChanged(r) == Cardinality(DOMAIN video_cache) # Cardinality(DOMAIN r.snapVC)

\* Lines 259-265: one turn of the loop: the file of the entry is unlinked if
\* it exists; a failing unlink is caught and the loop goes on.  (An entry
\* that another thread has replaced by one of another key is passed over.)
ClearClauses == {"Exception"}
UnlinkOutcomes == {"ok", "OSError"}
C_loop(t) ==
    /\ th[t].pc = "C_loop"
    /\ th[t].todo # {}
    /\ LET r == th[t]
           k == CHOOSE x \in r.todo : TRUE
           temp_path == video_cache[k]
       IN  IF SizeChanged(r)
           THEN /\ UNCHANGED <<disk, lastDl>>
                /\ th' = [th EXCEPT ![t].exc = "RuntimeError", ![t].pc = "raised"]
           ELSE IF ~Has(video_cache, k)
           THEN /\ UNCHANGED <<disk, lastDl>>
                /\ th' = [th EXCEPT ![t].todo = @ \ {k}]
           ELSE \E o \in UnlinkOutcomes :
              IF path_exists(disk, temp_path) /\ o = "ok"
              THEN /\ disk' = Drop(disk, {temp_path})
                   /\ lastDl' = Drop(lastDl, {x \in DOMAIN lastDl : lastDl[x] = temp_path})
                   /\ th' = [th EXCEPT ![t].todo = @ \ {k}]
              ELSE /\ UNCHANGED <<disk, lastDl>>
                   /\ th' = IF ~path_exists(disk, temp_path)
                            THEN [th EXCEPT ![t].todo = @ \ {k}]
                            ELSE IF Caught(o, ClearClauses)
                            THEN [th EXCEPT ![t].todo = @ \ {k},
                                            ![t].unlinkFailed = @ \cup {k}]
                            ELSE [th EXCEPT ![t].exc = o, ![t].pc = "raised"]
    /\ UNCHANGED <<gdrive_service, video_cache, video_list_cache, now,
                   lastOk, clearedKeys, observed, recording, builds>>

\* (A clear that empties the listing cache too.)
C_clearBoth(t) ==
    /\ th[t].pc = "C_loop"
    /\ th[t].todo = {}
    /\ video_cache' = Empty
    /\ video_list_cache' = Empty
    /\ lastDl' = Empty
    /\ clearedKeys' = DOMAIN video_cache
    /\ th' = [th EXCEPT ![t].pc = "done"]
    /\ UNCHANGED <<gdrive_service, disk, now, lastOk, observed, recording, builds>>

\* Line 267: the loop ends and _video_cache.clear() runs.
C_clear(t) ==
    /\ th[t].pc = "C_loop"
    /\ th[t].todo = {}
    /\ IF SizeChanged(th[t])
       THEN /\ th' = [th EXCEPT ![t].exc = "RuntimeError", ![t].pc = "raised"]
            /\ UNCHANGED <<video_cache, lastDl, clearedKeys>>
       ELSE /\ video_cache' = Empty
            /\ lastDl' = Empty
            /\ clearedKeys' = DOMAIN video_cache
            /\ th' = [th EXCEPT ![t].pc = "done"]
    /\ UNCHANGED <<gdrive_service, video_list_cache, disk, now, lastOk, observed, recording, builds>>

\* -------------------------------------------------------------- the caller
\* What a finished get_video_path call was: no matching video, a matching
\* video that could not be fetched, or a path.
Outcome(r) ==
    IF ~r.matched THEN "nomatch"
    ELSE IF r.dlSrc \in {"hit", "downloaded"} THEN "returned"
    ELSE "unavailable"
ResultClass(r) == IF r.retPath = NoPath THEN "None" ELSE "path"

\* The return statement runs (after the print that precedes it) and the
\* call returns to its caller.
Return(t) ==
    /\ th[t].pc \in {"done", "raised"}
    /\ observed' = IF recording /\ th[t].op = "resolve" /\ th[t].pc = "done"
                   THEN observed \cup {<<ResultClass(th[t]), Outcome(th[t])>>}
                   ELSE observed
    /\ th' = [th EXCEPT ![t] = Idle]
    /\ UNCHANGED <<Shared, lastOk, lastDl, clearedKeys, recording, builds>>

\* --------------------------------------------------------- the environment
\* Time passes.
Tick ==
    /\ \E i \in Instants : i > now /\ now' = i
    /\ UNCHANGED <<gdrive_service, video_cache, video_list_cache, disk, th, History>>

\* Something outside the module deletes a temporary file.
ExternalDelete ==
    /\ \E p \in DOMAIN disk :
          /\ disk' = Drop(disk, {p})
          /\ lastDl' = Drop(lastDl, {x \in DOMAIN lastDl : lastDl[x] = p})
    /\ UNCHANGED <<gdrive_service, video_cache, video_list_cache, now, th,
                   lastOk, clearedKeys, observed, recording, builds>>

\* ------------------------------------------------------- the specification
Step(t) ==
    \/ get_gdrive_service(t)
    \/ L_check(t)
    \/ L_got(t)
    \/ L_attempt(t)
    \/ L_except(t)
    \/ L_fallback(t)
    \/ A_names(t)
    \/ D_check(t)
    \/ D_got(t)
    \/ D_temp(t)
    \/ D_chunks(t)
    \/ D_write(t)
    \/ D_except(t)
    \/ R_match(t)
    \/ C_loop(t)
    \/ C_clear(t)
    \/ Return(t)

Call(t) ==
    \/ \E F \in Folders : \E uc \in BOOLEAN : Call_getListing(t, F, uc)
    \/ \E id \in FileIds : Call_getLocalPath(t, id, FN1)
    \/ \E fn \in Filenames : \E F \in Folders : Call_resolve(t, fn, F)
    \/ \E F \in Folders : Call_listAllFilenames(t, F)
    \/ Call_clear(t)

\* One caller at a time: the module's own model of execution.
Next ==
    \/ Call(MainThread)
    \/ Step(MainThread)
    \/ Tick
    \/ ExternalDelete

Spec == Init /\ [][Next]_vars

\* The same program called as the pages call it (get_video_path,
\* get_all_video_filenames, clear_video_cache), with the results of the
\* finished get_video_path calls kept in observed.
InitRecorded ==
    /\ gdrive_service = 0
    /\ video_cache = Empty
    /\ video_list_cache = Empty
    /\ disk = Empty
    /\ now = 0
    /\ th = [t \in Threads |-> Idle]
    /\ lastOk = Empty
    /\ lastDl = Empty
    /\ clearedKeys = {}
    /\ observed = {}
    /\ recording = TRUE
    /\ builds = 0

CallRecorded(t) ==
    \/ \E fn \in Filenames : \E F \in Folders : Call_resolve(t, fn, F)
    \/ \E F \in Folders : Call_listAllFilenames(t, F)
    \/ Call_clear(t)

NextRecorded ==
    \/ CallRecorded(MainThread)
    \/ Step(MainThread)
    \/ Tick
    \/ ExternalDelete

SpecRecorded == InitRecorded /\ [][NextRecorded]_vars

\* ------------------------------------------- download_video_to_temp alone
\* download_video_to_temp called directly, with arguments whose f-strings
\* meet: "x" + "_" + "a_b" and "x_a" + "_" + "b" are both "x_a_b".
KID1 == <<"x">>
KFN1 == <<"a", "_", "b">>
KID2 == <<"x", "_", "a">>
KFN2 == <<"b">>
KeyPairs == { <<KID1, KFN1>>, <<KID2, KFN2>> }

DStep(t) ==
    \/ get_gdrive_service(t)
    \/ D_check(t)
    \/ D_got(t)
    \/ D_temp(t)
    \/ D_chunks(t)
    \/ D_write(t)
    \/ D_except(t)
    \/ Return(t)

CallKeys(t) == \E p \in KeyPairs : Call_getLocalPath(t, p[1], p[2])

NextKeys ==
    \/ CallKeys(MainThread)
    \/ DStep(MainThread)

SpecKeys == Init /\ [][NextKeys]_vars

\* ---------------------------------- downloads of two files, and the clear
\* download_video_to_temp called for one id under two file names, whose
\* temporary files differ in their suffix, and clear_video_cache.
CStep(t) ==
    \/ DStep(t)
    \/ C_loop(t)
    \/ C_clear(t)

CallClear(t) ==
    \/ \E fn \in Filenames : Call_getLocalPath(t, ID1, fn)
    \/ Call_clear(t)

NextClear ==
    \/ CallClear(MainThread)
    \/ CStep(MainThread)

SpecClear == Init /\ [][NextClear]_vars

\* ------------------------------------------ concurrent list_videos_in_folder
\* Two threads call list_videos_in_folder for the same folder and their
\* steps interleave.  A step makes one access to _video_list_cache: the
\* lookup of line 75 yields the tuple of the entry, which is then unpacked
\* locally, and line 108 stores a tuple built beforehand.
LStep(t) ==
    \/ get_gdrive_service(t)
    \/ L_check(t)
    \/ L_got(t)
    \/ L_attempt(t)
    \/ L_except(t)
    \/ L_fallback(t)
    \/ Return(t)

NextListers ==
    \/ \E t \in Threads : \E F \in Folders : Call_getListing(t, F, TRUE)
    \/ \E t \in Threads : LStep(t)
    \/ Tick

SpecListers == Init /\ [][NextListers]_vars

\* --------------------- concurrent download_video_to_temp and clear_video_cache
\* Two threads call download_video_to_temp (for one file) and
\* clear_video_cache, and their steps interleave.  The steps are those of
\* the one-caller model: every interleaving of them is one of the program,
\* which has more (its steps are finer).
NextRace ==
    \/ \E t \in Threads : Call_getLocalPath(t, ID1, FN1)
    \/ \E t \in Threads : Call_clear(t)
    \/ \E t \in Threads : CStep(t)

SpecRace == Init /\ [][NextRace]_vars

\* ------------------------------------------------------------------ claims
NoMatch(r) == \A i \in 1..Len(r.videos) : r.videos[i].name # r.filename
Age(r) == r.checked_at - r.cached_time
\* the delays of k failed attempts: the initial delay, then its double
Delays(initial, k) == SubSeq(<<initial, 2 * initial>>, 1, k)

\* C1: a listing entry stored by a successful list call less than TTL (300 s)
\* before the check is returned as it is, with no remote list call; an entry
\* of age 300 s or more is not served from the fresh-cache path.
Thm_C1 ==
    /\ video_list_cache = lastOk
    /\ \A t \in Threads :
          LET r == th[t]
              F == r.folder_id
          IN  /\ r.listSrc = "fresh" =>
                    /\ r.use_cache /\ r.hadEntry
                    /\ r.listCalls = 0
                    /\ Age(r) < 300
                    /\ Has(lastOk, F)
                    /\ r.videos = lastOk[F][1]
                    /\ r.cached_time = lastOk[F][2]
              /\ (r.checked_at >= 0 /\ Age(r) < 300) =>
                    r.listSrc = "fresh" /\ r.listCalls = 0
              /\ (r.checked_at >= 0 /\ Age(r) >= 300) => r.listSrc # "fresh"

Wit_C1 ==
    /\ th[MainThread].op = "getListing"
    /\ th[MainThread].pc = "done"
    /\ th[MainThread].listSrc = "fresh"
    /\ th[MainThread].videos # <<>>
    /\ Age(th[MainThread]) = 299

Thm_C3 ==
    \A t \in Threads :
       LET r == th[t]
           F == r.folder_id
       IN  (r.listFail # "none" /\ ~r.hadEntry) =>
              /\ r.videos = <<>>
              /\ r.listSrc = "empty"
              /\ ~Has(video_list_cache, F)

Wit_C3 ==
    /\ th[MainThread].op = "getListing"
    /\ th[MainThread].pc = "done"
    /\ th[MainThread].listFail = "noservice"
    /\ ~th[MainThread].hadEntry

\* C4: once a download of a key has returned p, a later call for the same key
\* returns p with no remote download call, as long as the file at p has
\* stayed on disk and the download cache has not been cleared.
Thm_C4 ==
    \A t \in Threads :
       LET r == th[t]
       IN  r.roundTrip # NoPath =>
              /\ r.pc = "done"
              /\ r.dlSrc = "hit"
              /\ r.retPath = r.roundTrip
              /\ r.dlCalls = 0

Wit_C4 ==
    /\ th[MainThread].op = "getLocalPath"
    /\ th[MainThread].pc = "done"
    /\ th[MainThread].roundTrip # NoPath
    /\ th[MainThread].retPath = th[MainThread].roundTrip

\* C5 as stated: after the file of an entry was deleted, the next call for
\* the key makes exactly one remote download call and returns the path of a
\* newly created file.
Orig_C5 ==
    \A t \in Threads :
       LET r == th[t]
       IN  (r.dangling # NoPath /\ r.pc = "done") =>
              /\ r.dlCalls = 1
              /\ r.retPath # NoPath
              /\ r.retPath = r.temp_path

\* C5 amended: after the file of an entry was deleted, the next call for the
\* key evicts the entry and runs the download loop afresh; it never answers
\* from the cache: it returns the path of a file it has created, after exactly
\* one successful download and at most 3 remote download calls, or None when
\* the 3 attempts have failed.
Thm_C5 ==
    \A t \in Threads :
       LET r == th[t]
           key == cache_key(r.file_id, r.filename)
       IN  r.dangling # NoPath =>
              /\ r.dlSrc \in {"none", "downloaded", "exhausted"}
              /\ r.pc # "D_check" =>
                    \/ ~Has(video_cache, key)
                    \/ r.dlSrc = "downloaded" /\ video_cache[key] = r.retPath
              /\ r.pc = "done" =>
                    \/ /\ r.dlSrc = "downloaded"
                       /\ r.retPath = r.temp_path
                       /\ r.retPath # NoPath
                       /\ r.dlOk = 1
                       /\ r.dlCalls \in 1..3
                    \/ /\ r.dlSrc = "exhausted"
                       /\ r.retPath = NoPath
                       /\ r.dlOk = 0
                       /\ r.dfails = 3

Wit_C5 ==
    /\ th[MainThread].pc = "done"
    /\ th[MainThread].dangling # NoPath
    /\ th[MainThread].dlSrc = "downloaded"
    /\ th[MainThread].dlCalls = 1

\* C6: a remote call that fails k < 3 times and then succeeds has slept k
\* times: 1 s then 2 s when listing, 2 s then 4 s when downloading.
Thm_C6 ==
    \A t \in Threads :
       LET r == th[t]
       IN  /\ r.listSrc = "fetched" =>
                 /\ r.lfails < 3
                 /\ r.listCalls = r.lfails + 1
                 /\ r.ldelays = Delays(1, r.lfails)
           /\ r.dlSrc = "downloaded" =>
                 /\ r.dfails < 3
                 /\ r.ddelays = Delays(2, r.dfails)

Wit_C6 ==
    /\ th[MainThread].op = "resolve"
    /\ th[MainThread].pc = "done"
    /\ th[MainThread].listSrc = "fetched"
    /\ th[MainThread].ldelays = <<1, 2>>
    /\ th[MainThread].dlSrc = "downloaded"
    /\ th[MainThread].ddelays = <<2, 4>>

\* C7: when no video of the listing obtained for the folder has the file
\* name, get_video_path returns None, makes no remote download call and
\* leaves the download cache as it was.
Thm_C7 ==
    \A t \in Threads :
       LET r == th[t]
       IN  (r.op = "resolve" /\ r.listSrc # "none" /\ r.pc # "R_match" /\ NoMatch(r)) =>
              /\ r.pc = "done"
              /\ r.retPath = NoPath
              /\ r.dlCalls = 0
              /\ r.dlSrc = "none"
              /\ video_cache = r.snapVC

Wit_C7 ==
    /\ th[MainThread].op = "resolve"
    /\ th[MainThread].pc = "done"
    /\ th[MainThread].videos # <<>>
    /\ NoMatch(th[MainThread])
    /\ video_cache # Empty

Thm_C9 ==
    \A t \in Threads :
       LET r == th[t]
       IN  /\ r.pc # "raised"
           /\ r.dlSrc \in {"noservice", "exhausted"} => r.pc = "done" /\ r.retPath = NoPath
           /\ r.listFail # "none" => r.listSrc \in {"stale", "empty"}

Wit_C9 ==
    /\ th[MainThread].op = "resolve"
    /\ th[MainThread].pc = "done"
    /\ th[MainThread].dlSrc = "exhausted"
    /\ th[MainThread].dlCalls = 0
    /\ th[MainThread].retPath = NoPath

\* C10 as stated: the value get_video_path returns tells the three outcomes
\* apart: no two finished calls with the same kind of value had different
\* outcomes.
Orig_C10 ==
    \A a \in observed : \A b \in observed : a[1] = b[1] => a[2] = b[2]

\* C10 amended: the value get_video_path returns tells "a path was returned"
\* from the two other outcomes, which both return None: a path is returned
\* exactly when a matching video was found and served or downloaded.
Thm_C10 ==
    /\ \A o \in observed : (o[1] = "path") <=> (o[2] = "returned")
    /\ \A t \in Threads :
          LET r == th[t]
          IN  (r.op = "resolve" /\ r.pc = "done") =>
                 ((r.retPath # NoPath) <=> (Outcome(r) = "returned"))

Wit_C10 ==
    /\ <<"None", "nomatch">> \in observed
    /\ <<"None", "unavailable">> \in observed
    /\ <<"path", "returned">> \in observed

\* C11 as stated: download cache entries are identified by the pair (file id,
\* file name): a call for one pair never hits the entry of another pair, so
\* a hit returns a file whose bytes were downloaded for the requested file id.
Orig_C11 ==
    \A t \in Threads :
       LET r == th[t]
       IN  (r.pc = "done" /\ r.dlSrc = "hit" /\ Has(disk, r.retPath)) =>
              disk[r.retPath] = r.file_id

\* C11, its case: a call hits the cache and is handed the bytes of another
\* file id.
Wit_C11 ==
    /\ th[MainThread].op = "getLocalPath"
    /\ th[MainThread].pc = "done"
    /\ th[MainThread].dlSrc = "hit"
    /\ th[MainThread].file_id = KID2
    /\ Has(disk, th[MainThread].retPath)
    /\ disk[th[MainThread].retPath] = KID1

\* How far a running call is from its return: the statements still ahead of
\* it on its longest path, counted from the position and the attempt number.
Rank(r) ==
    IF r.pc = "L_check" THEN 100
    ELSE IF r.pc = "L_service" THEN 99
    ELSE IF r.pc = "L_got" THEN 98
    ELSE IF r.pc = "L_attempt" THEN 97 - 2 * r.attempt
    ELSE IF r.pc = "L_except" THEN 96 - 2 * r.attempt
    ELSE IF r.pc = "L_fallback" THEN 91
    ELSE IF r.pc \in {"R_match", "A_names"} THEN 90
    ELSE IF r.pc = "D_check" THEN 89
    ELSE IF r.pc = "D_service" THEN 88
    ELSE IF r.pc = "D_got" THEN 87
    ELSE IF r.pc = "D_temp" THEN 86 - 4 * r.attempt
    ELSE IF r.pc = "D_chunks" THEN 85 - 4 * r.attempt
    ELSE IF r.pc = "D_write" THEN 84 - 4 * r.attempt
    ELSE IF r.pc = "D_except" THEN 83 - 4 * r.attempt
    ELSE IF r.pc = "C_loop" THEN 1 + Cardinality(r.todo)
    ELSE 0

AttemptsBounded(r) ==
    /\ r.attempt <= 3
    /\ r.listCalls <= 3 /\ r.lfails <= 3 /\ Len(r.ldelays) <= 2
    /\ r.dlCalls <= 3 /\ r.dfails <= 3 /\ Len(r.ddelays) <= 2
    /\ r.pc \in {"L_attempt", "L_except", "D_temp", "D_chunks", "D_write", "D_except"} =>
          r.attempt <= 2
    /\ r.listFail = "exhausted" =>
          /\ r.listCalls = 3 /\ r.lfails = 3
          /\ r.ldelays = <<1, 2>>
          /\ r.listSrc \in {"stale", "empty"}
    /\ r.dlSrc = "exhausted" =>
          /\ r.pc = "done"
          /\ r.dfails = 3
          /\ r.ddelays = <<2, 4>>
          /\ r.retPath = NoPath

\* C12: a call makes at most 3 attempts of its remote call and sleeps at
\* most twice; after the third failure it does not sleep and ends with the
\* fallback value; every step of a running call brings it nearer to its
\* return (no position is visited twice, so no cache lookup is repeated and
\* the call ends after a bounded number of steps).
Thm_C12 ==
    /\ [](\A t \in Threads : AttemptsBounded(th[t]) /\ Rank(th[t]) >= 0)
    /\ [][\A t \in Threads :
             (Rank(th[t]) > 0 /\ th'[t] # th[t]) => Rank(th'[t]) < Rank(th[t])]_vars

Wit_C12 ==
    /\ th[MainThread].op = "resolve"
    /\ th[MainThread].pc = "done"
    /\ th[MainThread].listSrc = "fetched"
    /\ th[MainThread].lfails = 2
    /\ th[MainThread].dlSrc = "exhausted"
    /\ th[MainThread].dlCalls = 3
    /\ th[MainThread].ddelays = <<2, 4>>

\* C13: the entry of a folder is the files of the folder's latest successful
\* list call with the time of that success; the listing cache changes only
\* when a list call succeeds, and then the entry of its folder becomes what
\* that call returns, whatever the entry held before.
Thm_C13 ==
    /\ [](\A F \in DOMAIN video_list_cache :
             /\ video_list_cache[F][1] \in Listings
             /\ video_list_cache[F][2] <= now
             /\ Has(lastOk, F)
             /\ video_list_cache[F] = lastOk[F])
    /\ [][video_list_cache' # video_list_cache =>
             \E t \in Threads :
                /\ th[t].pc = "L_attempt"
                /\ th'[t].listSrc = "fetched"
                /\ video_list_cache' =
                      Put(video_list_cache, th[t].folder_id, <<th'[t].videos, now>>)]_vars

Wit_C13 ==
    /\ th[MainThread].op = "getListing"
    /\ th[MainThread].pc = "done"
    /\ th[MainThread].listSrc = "fetched"
    /\ th[MainThread].hadEntry
    /\ th[MainThread].cached_time >= 0
    /\ th[MainThread].videos = <<>>
    /\ video_list_cache["F1"][1] = <<>>
    /\ video_list_cache["F1"][2] > th[MainThread].cached_time

\* C14: when several videos of the listing have the file name,
\* get_video_path hands download_video_to_temp the id of the first of them
\* in listing order; a video whose name differs from the file name, be it in
\* the case of a letter only, is not selected.
Thm_C14 ==
    \A t \in Threads :
       LET r == th[t]
       IN  (r.op = "resolve" /\ r.matched) =>
              \E i \in 1..Len(r.videos) :
                 /\ r.videos[i].name = r.filename
                 /\ \A j \in 1..(i - 1) : r.videos[j].name # r.filename
                 /\ r.file_id = r.videos[i].id
                 /\ (r.pc = "done" /\ r.dlSrc = "downloaded") =>
                       /\ Has(video_cache, cache_key(r.videos[i].id, r.filename))
                       /\ video_cache[cache_key(r.videos[i].id, r.filename)] = r.retPath

Wit_C14 ==
    /\ th[MainThread].op = "resolve"
    /\ th[MainThread].pc = "done"
    /\ th[MainThread].matched
    /\ th[MainThread].dlSrc = "downloaded"
    /\ th[MainThread].filename = FN1
    /\ Len(th[MainThread].videos) = 3
    /\ th[MainThread].videos[1].name = FN1Upper
    /\ th[MainThread].videos[2].name = FN1
    /\ th[MainThread].videos[3].name = FN1
    /\ th[MainThread].videos[3].id # th[MainThread].videos[2].id
    /\ th[MainThread].file_id = th[MainThread].videos[2].id

\* C15: when clear_video_cache returns, the download cache is empty however
\* many unlinks have failed, and the file of every entry whose unlink has not
\* failed is gone: a failed unlink does not keep the loop from the other
\* entries.
Thm_C15 ==
    \A t \in Threads :
       LET r == th[t]
       IN  r.op = "clearDownloadCache" =>
              /\ r.pc # "raised"
              /\ r.unlinkFailed \subseteq DOMAIN r.snapVC \ r.todo
              /\ \A k \in (DOMAIN r.snapVC \ r.todo) \ r.unlinkFailed :
                    ~Has(disk, r.snapVC[k])
              /\ r.pc = "done" =>
                    /\ r.todo = {}
                    /\ video_cache = Empty

Wit_C15 ==
    /\ th[MainThread].op = "clearDownloadCache"
    /\ th[MainThread].pc = "done"
    /\ Cardinality(DOMAIN th[MainThread].snapVC) = 2
    /\ Cardinality(th[MainThread].unlinkFailed) = 1
    /\ Cardinality(DOMAIN disk) = 1
    /\ \E k \in th[MainThread].unlinkFailed : Has(disk, th[MainThread].snapVC[k])
    /\ video_cache = Empty

\* C16: the service is built at the first use and at most once: once
\* _gdrive_service holds a service no step builds or assigns another, every
\* call that has asked for the service holds that same object, and a build
\* that fails gives the caller None, raises nothing and leaves
\* _gdrive_service None for the next call to try again.
Thm_C16 ==
    /\ [](/\ builds <= 1
          /\ gdrive_service = builds
          /\ \A t \in Threads :
                LET r == th[t]
                IN  /\ r.service \in {0, gdrive_service}
                    /\ r.pc \in {"L_got", "D_got"} => r.service = gdrive_service
                    /\ r.listFail = "noservice" \/ r.dlSrc = "noservice" =>
                          r.service = 0 /\ r.pc # "raised")
    /\ [][/\ gdrive_service # 0 => gdrive_service' = gdrive_service /\ builds' = builds
          /\ builds' # builds =>
                \E t \in Threads : th[t].pc \in {"L_service", "D_service"}
                                      /\ th'[t].service = builds']_vars

Wit_C16 ==
    /\ builds = 1
    /\ gdrive_service = 1
    /\ video_list_cache # Empty
    /\ video_cache # Empty
    /\ th[MainThread].op = "getLocalPath"
    /\ th[MainThread].pc = "D_got"
    /\ th[MainThread].service = 1

\* C17: a list call that ends in the fallback leaves the listing cache as it
\* was at the call, the time of the folder's entry included; an entry that
\* is served stale keeps its age, so a call that finds it 300 s old or older
\* does not return before it has made a remote list call.
Thm_C17 ==
    \A t \in Threads :
       LET r == th[t]
           F == r.folder_id
       IN  r.op = "getListing" =>
              /\ r.listFail # "none" =>
                    /\ video_list_cache = r.snapLC
                    /\ r.listSrc = "stale" =>
                          /\ r.videos = r.snapLC[F][1]
                          /\ video_list_cache[F][2] = r.snapLC[F][2]
                          /\ r.use_cache => video_list_cache[F][2] = r.cached_time
              /\ (r.pc = "done" /\ r.checked_at >= 0 /\ Age(r) >= 300) =>
                    r.listCalls >= 1

Wit_C17 ==
    /\ th[MainThread].op = "getListing"
    /\ th[MainThread].pc = "done"
    /\ th[MainThread].listFail = "exhausted"
    /\ th[MainThread].listSrc = "stale"
    /\ th[MainThread].listCalls = 3
    /\ th[MainThread].checked_at = 300
    /\ video_list_cache = th[MainThread].snapLC
    /\ video_list_cache["F1"][2] = 0
    /\ now > 300

\* The entries of the download cache that hold the path.
Owners(p) == {k \in DOMAIN video_cache : video_cache[k] = p}

\* C18 as stated: when download_video_to_temp returns, each temporary file
\* the call has created is held by exactly one entry of the download cache
\* or is no longer on disk; a failed attempt leaves no file without an entry.
Orig_C18 ==
    \A t \in Threads :
       LET r == th[t]
       IN  (r.op = "getLocalPath" /\ r.pc = "done") =>
              \A p \in r.created : ~Has(disk, p) \/ Cardinality(Owners(p)) = 1

\* C18, its case: a call whose first attempt failed after the temporary file
\* was made returns, and that file is on disk with no entry.
Wit_C18 ==
    /\ th[MainThread].op = "getLocalPath"
    /\ th[MainThread].pc = "done"
    /\ th[MainThread].dfails >= 1
    /\ \E p \in th[MainThread].created : Has(disk, p) /\ Owners(p) = {}

\* C19: with list calls for the same folder running concurrently, the files
\* and the time a call reads from the entry are those that one successful
\* list call has stored together; the entry changes only by being replaced
\* with the files and the time of the call that has just succeeded.
Thm_C19 ==
    /\ [](\A F \in DOMAIN video_list_cache :
             Has(lastOk, F) /\ video_list_cache[F] = lastOk[F])
    /\ [][\A t \in Threads :
             LET F == th[t].folder_id
             IN  /\ (th[t].pc = "L_check" /\ th'[t].listSrc = "fresh") =>
                       <<th'[t].videos, th'[t].cached_time>> = lastOk[F]
                 /\ (th[t].pc = "L_check" /\ th'[t].pc = "L_service" /\ th'[t].hadEntry) =>
                       th'[t].cached_time = lastOk[F][2]
                 /\ (th[t].listSrc = "none" /\ th'[t].listSrc = "stale") =>
                       th'[t].videos = lastOk[F][1]
                 /\ (th[t].pc = "L_attempt" /\ th'[t].listSrc = "fetched") =>
                       video_list_cache'[F] = <<th'[t].videos, now>>]_vars

\* One thread has replaced the entry while the other, which had found the
\* old entry stale, was between its check and its own list call.
Wit_C19 ==
    /\ th["t1"].op = "getListing"
    /\ th["t1"].pc = "L_attempt"
    /\ th["t1"].hadEntry
    /\ th["t2"].op = "getListing"
    /\ th["t2"].pc = "done"
    /\ th["t2"].listSrc = "fetched"
    /\ th["t2"].videos # <<>>
    /\ video_list_cache["F1"][2] > th["t1"].cached_time
    /\ th["t1"].cached_time >= 0

\* C20 as stated: with download_video_to_temp and clear_video_cache running
\* concurrently, a path that a call returns names a file that is on disk
\* at the step in which the call returns it.
Orig_C20 ==
    [][\A t \in Threads :
          (/\ th[t].op = "getLocalPath"
           /\ th[t].pc = "done"
           /\ th'[t].pc = "idle"
           /\ th[t].retPath # NoPath) => Has(disk, th[t].retPath)]_vars

\* C20, its case: a call has found its cached file on disk and is about to
\* return the path, and the clear of the other thread has unlinked the file.
Wit_C20 ==
    /\ th["t1"].op = "getLocalPath"
    /\ th["t1"].pc = "done"
    /\ th["t1"].dlSrc = "hit"
    /\ th["t1"].retPath # NoPath
    /\ ~Has(disk, th["t1"].retPath)
    /\ th["t2"].op = "clearDownloadCache"
    /\ th["t2"].pc = "C_loop"
====
